---- MODULE Spec2Model ----
(***************************************************************************)
(* A model of the Aha!/Jira synchronizers of this repository:              *)
(*   src/Ahaj.py          AhaJiraSync  (ideas  -> new Jira issues)         *)
(*   src/Jira2AhaSync.py  JiraAhaSync  (issues <- idea description/files)  *)
(*                                                                         *)
(* JSON values are tagged records.  A text is a sequence of lexical tokens:*)
(* "." and each decimal digit are tokens of their own, every other token   *)
(* is a maximal run of other characters, so that two texts are equal       *)
(* exactly when their token sequences are.                                 *)
(***************************************************************************)
EXTENDS Integers, Sequences, FiniteSets, TLC

(* ------------------------------ JSON values --------------------------- *)
Null == [t |-> "null"]
Str(s) == [t |-> "str", v |-> s]
Num(n) == [t |-> "num", v |-> n]
List(s) == [t |-> "list", v |-> s]
Dict(f) == [t |-> "dict", v |-> f]

\* The empty dict {} (a function with the empty domain).
EmptyMap == [k \in {} |-> Null]

\* A one-token text, e.g. the literal 'name'.
T(s) == <<s>>

IsDict(x) == x.t = "dict"
IsList(x) == x.t = "list"
IsNull(x) == x.t = "null"

\* key in d   (d a dict value)
HasKey(d, k) == k \in DOMAIN d.v

\* Python truthiness of a JSON value.
Truthy(x) ==
  CASE x.t = "null" -> FALSE
    [] x.t = "str" -> x.v # <<>>
    [] x.t = "num" -> x.v # 0
    [] x.t = "list" -> x.v # <<>>
    [] x.t = "dict" -> DOMAIN x.v # {}
    [] OTHER -> TRUE

\* d.get(k, default) on a dict value.
Get(d, k, default) == IF HasKey(d, k) THEN d.v[k] ELSE default

(* ------------------------------- texts -------------------------------- *)
Digits == {"0", "1", "2", "3", "4", "5", "6", "7", "8", "9"}

DigitVal(c) ==
  CASE c = "0" -> 0 [] c = "1" -> 1 [] c = "2" -> 2 [] c = "3" -> 3
    [] c = "4" -> 4 [] c = "5" -> 5 [] c = "6" -> 6 [] c = "7" -> 7
    [] c = "8" -> 8 [] c = "9" -> 9

\* str.split(sep): the pieces between the occurrences of the token sep;
\* n+1 pieces for n separators, empty pieces included.
RECURSIVE SplitFrom(_, _, _)
SplitFrom(s, sep, cur) ==
  IF s = <<>> THEN <<cur>>
  ELSE IF Head(s) = sep THEN <<cur>> \o SplitFrom(Tail(s), sep, <<>>)
  ELSE SplitFrom(Tail(s), sep, Append(cur, Head(s)))

Split(s, sep) == SplitFrom(s, sep, <<>>)

\* str.isdigit(): non-empty and every character a digit.
IsDigit(s) == s # <<>> /\ \A n \in 1..Len(s) : s[n] \in Digits

\* int(s) for a text of decimal digits.
RECURSIVE IntOf(_)
IntOf(s) == IF s = <<>> THEN 0 ELSE 10 * IntOf(SubSeq(s, 1, Len(s) - 1)) + DigitVal(s[Len(s)])

(* ------------------- AhaJiraSync.get_nested_field_value --------------- *)
\* The outcome of a call: a returned value or a raised exception.
Ret(x) == [raised |-> FALSE, val |-> x]
Raise(e) == [raised |-> TRUE, exc |-> e]

\* One turn of the for loop over the keys; list indexing is 0-based and an
\* IndexError is caught and answered with None.
NestedStep_OneBased(current, key) ==
  IF IsDict(current) /\ HasKey(current, key) THEN [go |-> TRUE, cur |-> current.v[key]]
  ELSE IF IsList(current) /\ IsDigit(key) THEN
    IF IntOf(key) + 1 <= Len(current.v) + 1 /\ IntOf(key) >= 1
      THEN [go |-> TRUE, cur |-> current.v[IntOf(key)]]
      ELSE [go |-> FALSE, cur |-> Null]
  ELSE [go |-> FALSE, cur |-> Null]

NestedStep(current, key) ==
  IF IsDict(current) /\ HasKey(current, key) THEN [go |-> TRUE, cur |-> current.v[key]]
  ELSE IF IsList(current) /\ IsDigit(key) THEN
    IF IntOf(key) < Len(current.v)
      THEN [go |-> TRUE, cur |-> current.v[IntOf(key) + 1]]
      ELSE [go |-> FALSE, cur |-> Null]
  ELSE [go |-> FALSE, cur |-> Null]

RECURSIVE NestedWalk(_, _)
NestedWalk(current, keys) ==
  IF keys = <<>> THEN current
  ELSE LET s == NestedStep(current, Head(keys))
       IN IF s.go THEN NestedWalk(s.cur, Tail(keys)) ELSE Null

get_nested_field_value(data, field_path) == NestedWalk(data, Split(field_path, "."))

(* ------------------------------ configuration ------------------------- *)
\* The settings object read by AhaJiraSync.  field_mappings is a record of
\* the recognised tables; a table the file leaves out is Null.
\* custom_fields is the dict of (source path -> Jira field) in file order,
\* as a sequence of pairs with pairwise different paths.
Put(f, k, x) == [y \in DOMAIN f \cup {k} |-> IF y = k THEN x ELSE f[y]]

FieldMappings(config) == config.field_mappings

\* dict.get(key, {}) of an optional table.
Table(m) == IF IsNull(m) THEN Dict(EmptyMap) ELSE m

(* ------------------------ AhaJiraSync.format_description -------------- *)
\* description_parts, each part a pair <<literal, interpolated value>>.
Part(label, x) == <<label, x>>

SelectedCustomFields(idea, selected) ==
  LET cfs == Get(idea, T("custom_fields"), Null)
      keep(fld) == \E n \in 1..Len(selected) :
                      selected[n] = Get(fld, T("name"), Str(T("Unknown Field")))
      RECURSIVE lines(_)
      lines(s) == IF s = <<>> THEN <<>>
                  ELSE (IF keep(Head(s))
                          THEN <<Part("field", Get(Head(s), T("value"), Str(T("N/A"))))>>
                          ELSE <<>>) \o lines(Tail(s))
  IN IF Truthy(cfs) /\ selected # <<>> /\ IsList(cfs)
       THEN <<Part("", Null), Part("*Custom Fields:*", Null)>> \o lines(cfs.v)
       ELSE <<>>

format_description(idea, config) ==
  LET g(k) == Get(idea, T(k), Null)
      opt(k, parts) == IF Truthy(g(k)) THEN parts ELSE <<>>
      sel == FieldMappings(config).description_custom_fields
  IN   opt("description", <<Part("*Original Description:*", Null),
                             Part("", g("description")), Part("", Null)>>)
    \o opt("url", <<Part("*Aha! Link:*", g("url")), Part("", Null)>>)
    \o opt("score", <<Part("*Score:*", g("score"))>>)
    \o opt("categories", <<Part("*Categories:*", g("categories"))>>)
    \o SelectedCustomFields(idea, sel)
    \o opt("portal", <<Part("", Null), Part("*Portal Information:*", g("portal"))>>)
    \o opt("created_by", <<Part("", Null), Part("*Created by:*", g("created_by"))>>)
    \o opt("created_at", <<Part("*Created:*", g("created_at"))>>)
    \o opt("feature", <<Part("", Null), Part("*Related Feature:*", g("feature"))>>)

(* ----------------------------- AhaJiraSync.map_status ----------------- *)
\* A workflow_status that is no dict has no get (AttributeError); a name
\* that is a list or a dict cannot be a key (TypeError).
map_status(idea, config) ==
  LET ws == Get(idea, T("workflow_status"), Dict(EmptyMap))
      aha_status == Get(ws, T("name"), Str(T("New")))
      status_mappings == Table(FieldMappings(config).status_mappings)
  IN IF ~IsDict(ws) THEN Raise("AttributeError")
     ELSE IF IsDict(aha_status) \/ IsList(aha_status) THEN Raise("TypeError")
     ELSE IF aha_status.t = "str" /\ HasKey(status_mappings, aha_status.v)
       THEN Ret(status_mappings.v[aha_status.v])
     ELSE Ret(Str(config.default_status))

(* ------------------- the priority mapping (src/Ahaj.py 329-344) ------- *)
\* The body that follows the last return of add_web_link_to_jira_issue.  No
\* def line binds it, so the class has no attribute map_priority; this is
\* what the body computes when a receiver does bind it.
HighScore == 80
MediumScore == 50

DefaultPriorityMappings ==
  Dict(T("high") :> Str(T("High")) @@ T("medium") :> Str(T("Medium")) @@ T("low") :> Str(T("Low")))

map_priority(idea, config) ==
  LET score == Get(idea, T("score"), Num(0))
      pm == IF IsNull(FieldMappings(config).priority_mappings)
              THEN DefaultPriorityMappings ELSE FieldMappings(config).priority_mappings
  IN IF score.t # "num" THEN Raise("TypeError")
     ELSE IF score.v >= HighScore THEN Ret(Get(pm, T("high"), Str(T("High"))))
     ELSE IF score.v >= MediumScore THEN Ret(Get(pm, T("medium"), Str(T("Medium"))))
     ELSE Ret(Get(pm, T("low"), Str(T("Low"))))

(* ---------------------------- AhaJiraSync.map_assignee ---------------- *)
\* Up to the directory lookup: either the answer (None or a mapped id) or
\* the email to look up with find_jira_user_by_email.
map_assignee_NoOverride(idea, config) ==
  LET assigned_to == Get(idea, T("assigned_to"), Null)
      aha_email == IF IsDict(assigned_to) THEN Get(assigned_to, T("email"), Null) ELSE Null
  IN IF ~Truthy(assigned_to) THEN [lookup |-> FALSE, val |-> Null]
     ELSE IF ~Truthy(aha_email) THEN [lookup |-> FALSE, val |-> Null]
     ELSE [lookup |-> TRUE, email |-> aha_email.v]

map_assignee(idea, config) ==
  LET assigned_to == Get(idea, T("assigned_to"), Null)
      aha_email == IF IsDict(assigned_to) THEN Get(assigned_to, T("email"), Null) ELSE Null
      email_mappings == Table(FieldMappings(config).assignee_mappings)
  IN IF ~Truthy(assigned_to) THEN [lookup |-> FALSE, val |-> Null]
     ELSE IF ~Truthy(aha_email) THEN [lookup |-> FALSE, val |-> Null]
     ELSE IF HasKey(email_mappings, aha_email.v)
       THEN [lookup |-> FALSE, val |-> email_mappings.v[aha_email.v]]
     ELSE [lookup |-> TRUE, email |-> aha_email.v]

(* ----------------- AhaJiraSync.create_jira_issue: the payload --------- *)
\* str.replace(' ', '_') of a category name.
Underscored(s) == [n \in 1..Len(s) |-> IF s[n] = " " THEN "_" ELSE s[n]]

Labels(idea) ==
  LET cats == Get(idea, T("categories"), Null)
      lab(c) == LET nm == Get(c, T("name"), Str(<<>>)) IN Str(Underscored(nm.v))
  IN (IF Truthy(cats) THEN [n \in 1..Len(cats.v) |-> lab(cats.v[n])] ELSE <<>>)
       \o <<Str(T("aha-import"))>>

\* The fields of issue_data as first built (lines 351-373).
BaseFields(idea, config, priority) ==
     T("project") :> Dict(T("key") :> Str(config.project_key))
  @@ T("summary") :> Get(idea, T("name"), Str(T("Untitled Idea")))
  @@ T("description") :> List(format_description(idea, config))
  @@ T("issuetype") :> Dict(T("name") :> Str(config.issue_type))
  @@ T("priority") :> Dict(T("name") :> priority)

WithAssignee(fields, assignee) ==
  IF Truthy(assignee) THEN Put(fields, T("assignee"), Dict(T("accountId") :> assignee))
  ELSE fields

\* created_at cut at its first 'T'.
DatePart(created_at) ==
  IF \E n \in 1..Len(created_at) : created_at[n] = "T"
    THEN Split(created_at, "T")[1] ELSE created_at

WithXrefs(fields, idea, config) ==
  LET fm == FieldMappings(config)
      ref == Get(idea, T("reference_num"), Null)
      cat == Get(idea, T("created_at"), Null)
      cby == Get(idea, T("created_by"), Dict(EmptyMap))
      mail == IF IsDict(cby) THEN Get(cby, T("email"), Null) ELSE Null
      f1 == IF Truthy(ref) /\ Truthy(fm.xref_id_field)
              THEN Put(fields, fm.xref_id_field.v, ref) ELSE fields
      f2 == IF Truthy(cat) /\ Truthy(fm.xref_created_field)
              THEN Put(f1, fm.xref_created_field.v, Str(DatePart(cat.v))) ELSE f1
      f3 == IF Truthy(mail) /\ Truthy(fm.xref_reporter_field)
              THEN Put(f2, fm.xref_reporter_field.v, mail) ELSE f2
  IN f3

\* field_mappings.get('custom_fields', {}).items()
CustomFieldPairs(config) ==
  IF IsNull(FieldMappings(config).custom_fields) THEN <<>>
  ELSE FieldMappings(config).custom_fields.v

\* The loop over custom_fields.items() (lines 406-412).
CustomFieldStep_NoNoneTest(fields, idea, pair) ==
  Put(fields, pair[2], get_nested_field_value(idea, pair[1]))

CustomFieldStep(fields, idea, pair) ==
  LET field_value == get_nested_field_value(idea, pair[1])
  IN IF ~IsNull(field_value) THEN Put(fields, pair[2], field_value) ELSE fields

RECURSIVE WithCustomFields(_, _, _)
WithCustomFields(fields, idea, pairs) ==
  IF pairs = <<>> THEN fields
  ELSE WithCustomFields(CustomFieldStep(fields, idea, Head(pairs)), idea, Tail(pairs))

\* issue_data["fields"] as posted (lines 350-412), given the priority name
\* and the assignee that map_assignee answered.
IssueFields(idea, config, priority, assignee) ==
  LET f0 == BaseFields(idea, config, priority)
      f1 == WithAssignee(f0, assignee)
      f2 == Put(f1, T("labels"), List(Labels(idea)))
      f3 == WithXrefs(f2, idea, config)
  IN WithCustomFields(f3, idea, CustomFieldPairs(config))

(* -------------------- AhaJiraSync.format_comments_for_jira ------------ *)
\* The lines that "\n".join glues together.  A comment whose created_by is
\* JSON null makes created_by.get raise AttributeError.
CommentBlock(comment) ==
  LET created_by == Get(comment, T("created_by"), Dict(EmptyMap))
      author_name == Get(created_by, T("name"), Str(T("Unknown User")))
      author_email == Get(created_by, T("email"), Str(<<>>))
      created_at == Get(comment, T("created_at"), Str(T("Unknown Date")))
      body == Get(comment, T("body"), Str(T("No content")))
  IN << [kind |-> "rule"],
        [kind |-> "header", name |-> author_name,
         email |-> IF Truthy(author_email) THEN author_email ELSE Null, at |-> created_at],
        [kind |-> "body", text |-> body],
        [kind |-> "blank"] >>

CommentRaises(comment) == ~IsDict(Get(comment, T("created_by"), Dict(EmptyMap)))

RECURSIVE CommentBlocks(_)
CommentBlocks(comments) ==
  IF comments = <<>> THEN <<>>
  ELSE CommentBlock(Head(comments)) \o CommentBlocks(Tail(comments))

format_comments_for_jira(comments) ==
  IF comments = <<>> THEN Ret(<<>>)
  ELSE IF \E n \in 1..Len(comments) : CommentRaises(comments[n]) THEN Raise("AttributeError")
  ELSE Ret(<<[kind |-> "title"], [kind |-> "blank"]>> \o CommentBlocks(comments))

\* not comment_text.strip(): the joined text holds no visible character.
IsBlankText(lines) ==
  \A n \in 1..Len(lines) :
     \/ lines[n].kind = "blank"
     \/ lines[n].kind = "body" /\ ~Truthy(lines[n].text)

(* ------------------------------ the throttles ------------------------- *)
\* Time in half seconds.  clk.ea and clk.ej are time.time() minus
\* last_aha_request and last_jira_request, clk.ga and clk.gj the time since
\* the last request actually sent to each service; each is kept up to the
\* service's limit, beyond which nothing reads it.
aha_rate_limit == 2
jira_rate_limit == 1

Min(a, b) == IF a < b THEN a ELSE b

Advance(c, d) ==
  [ea |-> Min(c.ea + d, aha_rate_limit), ej |-> Min(c.ej + d, jira_rate_limit),
   ga |-> Min(c.ga + d, aha_rate_limit), gj |-> Min(c.gj + d, jira_rate_limit)]

rate_limit_aha_NoSleep(c) == [c EXCEPT !.ea = 0]

rate_limit_aha(c) ==
  LET elapsed == c.ea
      slept == IF elapsed < aha_rate_limit THEN Advance(c, aha_rate_limit - elapsed) ELSE c
  IN [slept EXCEPT !.ea = 0]

rate_limit_jira(c) ==
  LET elapsed == c.ej
      slept == IF elapsed < jira_rate_limit THEN Advance(c, jira_rate_limit - elapsed) ELSE c
  IN [slept EXCEPT !.ej = 0]

\* A request to a service that takes d half seconds to answer.
AhaRequest(c, d) == Advance([c EXCEPT !.ga = 0], d)
JiraRequest(c, d) == Advance([c EXCEPT !.gj = 0], d)

(* ------------------------------- sample data -------------------------- *)
\* The configuration create_sample_config writes (lines 523-555).
SampleFieldMappings ==
  [assignee_mappings |-> Dict(T("aha-user@company.com") :> Str(T("jira-user@company.com"))),
   status_mappings |-> Dict(T("New") :> Str(T("To Do")) @@ T("Under review") :> Str(T("In Progress"))
                            @@ T("Approved") :> Str(T("To Do")) @@ T("Shipped") :> Str(T("Done"))),
   priority_mappings |-> DefaultPriorityMappings,
   custom_fields |-> [t |-> "pairs", v |-> << <<T("custom_field_name"), T("customfield_10001")>> >>],
   xref_id_field |-> Null, xref_created_field |-> Null, xref_reporter_field |-> Null,
   description_custom_fields |-> <<>>]

SampleConfig ==
  [project_key |-> T("PROJ"), issue_type |-> T("Story"), default_status |-> T("To Do"),
   field_mappings |-> SampleFieldMappings]

\* Ideas as the detail endpoint serves them.
IdeaA ==
  Dict(T("name") :> Str(T("Idea A")) @@ T("score") :> Num(85)
       @@ T("workflow_status") :> Dict(T("name") :> Str(T("Under review")))
       @@ T("url") :> Str(T("https://aha/ideas/A"))
       @@ T("assigned_to") :> Dict(T("email") :> Str(T("aha-user@company.com")))
       @@ T("custom_field_name") :> Str(T("x")))

IdeaB ==
  Dict(T("name") :> Str(T("Idea B")) @@ T("score") :> Num(10)
       @@ T("assigned_to") :> Dict(T("email") :> Str(T("someone@company.com")))
       @@ T("categories") :> List(<<Dict(T("name") :> Str(<<"Big", " ", "bets">>))>>))

IdeaC == Dict(EmptyMap)

\* Comments as the comments endpoint serves them; the author of the second
\* is JSON null (a deleted account).
CommentOk ==
  Dict(T("created_by") :> Dict(T("name") :> Str(T("Ann")) @@ T("email") :> Str(T("ann@company.com")))
       @@ T("created_at") :> Str(T("2024-01-02")) @@ T("body") :> Str(T("Nice")))

CommentNoAuthor ==
  Dict(T("created_by") :> Null @@ T("created_at") :> Str(T("2024-01-03"))
       @@ T("body") :> Str(T("Gone")))

\* An idea with a reference number, a creator and a list of custom fields,
\* the value of the second of them JSON null.
IdeaD ==
  Dict(T("name") :> Str(T("Idea D")) @@ T("score") :> Num(60)
       @@ T("url") :> Str(T("https://aha/ideas/D"))
       @@ T("reference_num") :> Str(T("APP-I-1"))
       @@ T("created_at") :> Str(<<"2024-01-02", "T", "10:00:00Z">>)
       @@ T("created_by") :> Dict(T("name") :> Str(T("Dan")) @@ T("email") :> Str(T("dan@company.com")))
       @@ T("custom_field_name") :> Str(T("x"))
       @@ T("custom_fields") :>
            List(<<Dict(T("name") :> Str(T("Region")) @@ T("value") :> Str(T("EU"))),
                   Dict(T("name") :> Str(T("Tier")) @@ T("value") :> Null)>>))

\* The ideas by name: the state holds the names.
IdeaOf(name) ==
  CASE name = "A" -> IdeaA
    [] name = "B" -> IdeaB
    [] name = "C" -> IdeaC
    [] name = "D" -> IdeaD

CommentLists == {<<>>, <<CommentOk>>, <<CommentOk, CommentNoAuthor>>}

\* What the user search answers.
UserLists == {<<>>, <<Dict(T("accountId") :> Str(T("acct-1")))>>}

Outcomes == {"ok", "error"}

(* -------------------------------- bounds ------------------------------ *)
\* Most ideas the source holds.
MaxIdeas == 2
\* params['per_page'], 100 in the source (line 67), scaled down so that the
\* source fills pages.
PerPage == 2
\* Longest time, in half seconds, a request takes to answer.
MaxLatency == 1
\* Most ideas the source of a listing holds: more than two pages.
MaxListed == 5

(* -------------------------------- state ------------------------------- *)
VARIABLES
  resolves,       \* which of fetch_idea_details, map_priority resolve on self
  config,         \* self.config
  pool,           \* the ideas the detail endpoint may serve (by name, see IdeaOf)
  source,         \* the idea summaries the source holds, in its order
  pc,             \* where sync_ideas stands
  page,           \* params['page'] of fetch_ideas_list
  all_ideas,      \* all_ideas of fetch_ideas_list
  ideas_list,     \* ideas_list of sync_ideas
  i,              \* position of idea_summary in ideas_list (from 1)
  results,        \* results of sync_ideas
  detailed_idea,  \* detailed_idea of sync_ideas (by name; "" before it is fetched)
  comments,       \* comments of sync_ideas
  priority,       \* the priority name computed for issue_data
  issue_data,     \* issue_data["fields"] of create_jira_issue
  clk,            \* the clock, relative to the throttles' timestamps
  lastCall,       \* the last request sent: its service and the gap before it
  requests,       \* number of pages requested by fetch_ideas_list
  hist            \* per record: what happened to it (observation only)

ahaVars == <<resolves, config, pool, source, pc, page, all_ideas, ideas_list, i, results,
             detailed_idea, comments, priority, issue_data, clk, lastCall, requests, hist>>

VARIABLES
  j_config,       \* self.config: dry_run, update_description, update_attachments,
                  \* additional_field_mappings (source field -> Jira field)
  j_found,        \* the issues the Jira search holds for the project
  j_pc,           \* where run_sync stands
  jira_issues,    \* jira_issues of run_sync
  j_k,            \* position of issue in jira_issues (from 1)
  success_count,  \* success_count of run_sync
  update_fields,  \* update_fields of sync_issue_with_aha (its keys)
  success,        \* success of sync_issue_with_aha
  attachments,    \* the attachments of the for loop not yet handled
  j_log,          \* per issue: the requests sent for it, in order, a request
                  \* that failed followed by "failed" (observation only)
  j_outcome       \* per issue: what sync_issue_with_aha answered (observation only)

jiraVars == <<j_config, j_found, j_pc, jira_issues, j_k, success_count, update_fields,
              success, attachments, j_log, j_outcome>>

\* One call of get_nested_field_value on its own.
VARIABLES
  r_data,    \* data (by name, see RecordOf)
  r_path,    \* field_path
  r_pc,      \* "call" before the call, "returned" after it
  r_result   \* what the call returned

resolverVars == <<r_data, r_path, r_pc, r_result>>

\* One run of a command-line entry point.
VARIABLES
  m_prog,    \* which script runs: "Jira2AhaSync" or "Ahaj"
  m_argv,    \* Ahaj: sys.argv[1:];  Jira2AhaSync: the parsed options
  m_env,     \* Jira2AhaSync: the environment;  Ahaj: the state of config.json
  m_run,     \* how the synchronisation ends if it is started
  m_pc,      \* position in main(); "exited" when the process has ended
  m_exit     \* exit status of the process, read when m_pc = "exited"

mainVars == <<m_prog, m_argv, m_env, m_run, m_pc, m_exit>>

\* One call of a method of AhaJiraSync on its own.
VARIABLES
  h_fn,        \* the method called
  h_idea,      \* its argument idea (map_priority, map_status)
  h_config,    \* self.config
  h_comments,  \* its argument comments (format_comments_for_jira)
  h_pc,        \* "call" before the call, "returned" after it
  h_result     \* what the call returned or raised

callVars == <<h_fn, h_idea, h_config, h_comments, h_pc, h_result>>

vars == <<ahaVars, jiraVars, resolverVars, mainVars, callVars>>

Orphans == {"fetch_idea_details", "map_priority"}

\* A listed summary with or without its 'id'.
Summary(k, has_id) == IF has_id THEN Dict(T("id") :> Num(k)) ELSE Dict(EmptyMap)

Sources ==
  UNION {{[k \in 1..n |-> Summary(k, b[k])] : b \in [1..n -> BOOLEAN]} : n \in 0..MaxIdeas}

\* The sources of a listing: up to MaxListed summaries.
ListedSources ==
  UNION {{[k \in 1..n |-> Summary(k, b[k])] : b \in [1..n -> BOOLEAN]} : n \in 0..MaxListed}

NoHist ==
  [entered |-> {}, write_ok |-> {}, write_fail |-> {}, succ |-> {}, fail |-> {},
   secondary_fail |-> {}, comment_posts |-> {},
   listing_failed |-> {}, comments_failed |-> {}, no_comments |-> {},
   lookups |-> <<>>, lookup_none |-> {}]

\* The locals of sync_ideas before its first statement.
FreshRun ==
  /\ page = 0 /\ all_ideas = <<>> /\ ideas_list = <<>> /\ i = 0
  /\ results = [total_ideas |-> 0, successful_syncs |-> 0, failed_syncs |-> 0, errors |-> <<>>]
  /\ detailed_idea = "" /\ comments = <<>> /\ priority = Null /\ issue_data = EmptyMap
  /\ clk = [ea |-> aha_rate_limit, ej |-> jira_rate_limit,
            ga |-> aha_rate_limit, gj |-> jira_rate_limit]
  /\ lastCall = [svc |-> "none", gap |-> 0]
  /\ requests = 0
  /\ hist = NoHist

InitRun == pc = "start" /\ FreshRun

\* The class as written binds neither orphaned body; a receiver that binds
\* both is the program the specification describes.
Bindings == {{}, Orphans}

InitAha ==
  /\ resolves \in Bindings
  /\ config = SampleConfig
  /\ pool = {"A", "B", "C"}
  /\ source \in Sources
  /\ InitRun

\* Configurations that differ from the sample in their custom_fields table
\* (up to MaxPairs pairs with different paths) and their xref_id_field.
MaxPairs == 2

FieldPaths ==
  {T("custom_field_name"),
   <<"custom_fields", ".", "0", ".", "value">>,
   <<"custom_fields", ".", "1", ".", "value">>,
   <<"custom_fields", ".", "2", ".", "value">>}

JiraFields == {T("customfield_10001"), T("customfield_10002"), T("summary")}

PairLists ==
  UNION {{ps \in [1..n -> FieldPaths \X JiraFields] :
            \A a, b \in 1..n : a # b => ps[a][1] # ps[b][1]} : n \in 0..MaxPairs}

XrefFields == {Null, Str(T("customfield_20001")), Str(T("project"))}

MapConfigs ==
  {[SampleConfig EXCEPT !.field_mappings =
      [SampleFieldMappings EXCEPT !.custom_fields = [t |-> "pairs", v |-> ps],
                                  !.xref_id_field = x]] :
     ps \in PairLists, x \in XrefFields}

\* One listed idea, every mapping configuration.
InitMap ==
  /\ resolves \in Bindings
  /\ config \in MapConfigs
  /\ pool = {"B", "D"}
  /\ source = <<Summary(1, TRUE)>>
  /\ InitRun

\* AhaJiraSync not running.
IdleAha ==
  /\ resolves = {} /\ config = SampleConfig /\ pool = {} /\ source = <<>>
  /\ InitRun

\* No run of sync_ideas to come.
AhaOver ==
  /\ resolves = {} /\ config = SampleConfig /\ pool = {} /\ source = <<>>
  /\ pc = "done" /\ FreshRun

(* --------------------------- AhaJiraSync.sync_ideas ------------------- *)
Latencies == 0..MaxLatency

\* The page the source serves for params['page'] = p.
PageOf(src, p) ==
  SubSeq(src, (p - 1) * PerPage + 1, Min(p * PerPage, Len(src)))

Note(h, field, k) == [h EXCEPT ![field] = @ \cup {k}]

\* The inner handler (lines 495-498): the record failed with a message.
FailRecord_CountsTwice(exc, c, h) ==
  /\ results' = [results EXCEPT !.failed_syncs = @ + 2,
                   !.errors = Append(@, [label |-> "Idea", id |-> ideas_list[i].v[T("id")].v,
                                         exc |-> exc])]
  /\ hist' = Note(h, "fail", i)
  /\ clk' = c
  /\ i' = i + 1
  /\ pc' = "next_idea"
  /\ detailed_idea' = "" /\ comments' = <<>> /\ priority' = Null /\ issue_data' = EmptyMap

FailRecord(exc, c, h) ==
  /\ results' = [results EXCEPT !.failed_syncs = @ + 1,
                   !.errors = Append(@, [label |-> "Idea", id |-> ideas_list[i].v[T("id")].v,
                                         exc |-> exc])]
  /\ hist' = Note(h, "fail", i)
  /\ clk' = c
  /\ i' = i + 1
  /\ pc' = "next_idea"
  /\ detailed_idea' = "" /\ comments' = <<>> /\ priority' = Null /\ issue_data' = EmptyMap

\* The outer handler (lines 500-502).
Fatal_CountsFailure(exc, c, h) ==
  /\ results' = [results EXCEPT !.failed_syncs = @ + 1,
                   !.errors = Append(@, [label |-> "Fatal error", exc |-> exc])]
  /\ hist' = h
  /\ clk' = c
  /\ pc' = "done"
  /\ detailed_idea' = "" /\ comments' = <<>> /\ priority' = Null /\ issue_data' = EmptyMap

Fatal(exc, c, h) ==
  /\ results' = [results EXCEPT !.errors = Append(@, [label |-> "Fatal error", exc |-> exc])]
  /\ hist' = h
  /\ clk' = c
  /\ pc' = "done"
  /\ detailed_idea' = "" /\ comments' = <<>> /\ priority' = Null /\ issue_data' = EmptyMap

\* Line 491.
Succeed(c, h) ==
  /\ results' = [results EXCEPT !.successful_syncs = @ + 1]
  /\ hist' = Note(h, "succ", i)
  /\ clk' = c
  /\ i' = i + 1
  /\ pc' = "next_idea"
  /\ detailed_idea' = "" /\ comments' = <<>> /\ priority' = Null /\ issue_data' = EmptyMap

\* Lines 492-493: create_jira_issue answered None.
FailSilently(c, h) ==
  /\ results' = [results EXCEPT !.failed_syncs = @ + 1]
  /\ hist' = Note(h, "fail", i)
  /\ clk' = c
  /\ i' = i + 1
  /\ pc' = "next_idea"
  /\ detailed_idea' = "" /\ comments' = <<>> /\ priority' = Null /\ issue_data' = EmptyMap

\* Lines 455-468 and 61-71: results, then fetch_ideas_list up to its loop.
SyncStart ==
  /\ pc = "start"
  /\ clk' = rate_limit_aha(clk)
  /\ page' = 1
  /\ all_ideas' = <<>>
  /\ pc' = "list_page"
  /\ UNCHANGED <<callVars, mainVars, resolverVars, jiraVars, resolves, config, pool, source, ideas_list, i, results, detailed_idea,
                 comments, priority, issue_data, lastCall, requests, hist>>

\* Line 88 negated: the page is full, so the loop asks for the next one.
MorePages_Never(ideas) == FALSE

MorePages(ideas) == Len(ideas) >= PerPage

\* Lines 74-98 and 469: one turn of the while loop of fetch_ideas_list.
FetchPage ==
  /\ pc = "list_page"
  /\ \E outcome \in Outcomes, d \in Latencies :
       LET c == AhaRequest(clk, d)
           ideas == PageOf(source, page)
           done(list) ==
             /\ ideas_list' = list
             /\ results' = [results EXCEPT !.total_ideas = Len(list)]
             /\ i' = 1
             /\ pc' = "next_idea"
             /\ page' = page
             /\ clk' = c
             /\ hist' = hist
             /\ UNCHANGED <<detailed_idea, comments, priority, issue_data>>
       IN /\ lastCall' = [svc |-> "aha", gap |-> clk.ga]
          /\ requests' = requests + 1
          /\ IF outcome = "error"
               THEN /\ Fatal("RequestException", c, Note(hist, "listing_failed", page))
                    /\ UNCHANGED <<page, all_ideas, ideas_list, i>>
             ELSE IF ideas = <<>>
               THEN done(all_ideas) /\ all_ideas' = all_ideas
             ELSE IF ~MorePages(ideas)
               THEN done(all_ideas \o ideas) /\ all_ideas' = all_ideas \o ideas
             ELSE /\ all_ideas' = all_ideas \o ideas
                  /\ page' = page + 1
                  /\ clk' = c
                  /\ UNCHANGED <<pc, ideas_list, i, results, detailed_idea, comments,
                                 priority, issue_data, hist>>
  /\ UNCHANGED <<callVars, mainVars, resolverVars, jiraVars, resolves, config, pool, source>>

\* Lines 472-477: the loop head, idea_summary['id'] and the call of
\* fetch_idea_details up to its request (lines 141-144).
NextIdea ==
  /\ pc = "next_idea"
  /\ IF i > Len(ideas_list)
       THEN /\ pc' = "done"
            /\ UNCHANGED <<i, results, clk, hist, detailed_idea, comments, priority, issue_data>>
     ELSE IF ~HasKey(ideas_list[i], T("id"))
       THEN Fatal("KeyError", clk, Note(hist, "entered", i)) /\ UNCHANGED i
     ELSE IF "fetch_idea_details" \notin resolves
       THEN FailRecord("AttributeError", clk, Note(hist, "entered", i))
     ELSE /\ clk' = rate_limit_aha(clk)
          /\ hist' = Note(hist, "entered", i)
          /\ pc' = "details"
          /\ UNCHANGED <<i, results, detailed_idea, comments, priority, issue_data>>
  /\ UNCHANGED <<callVars, mainVars, resolverVars, jiraVars, resolves, config, pool, source, page, all_ideas, ideas_list, lastCall, requests>>

\* Lines 145-152, then fetch_idea_comments up to its request (lines 100-104).
FetchDetails ==
  /\ pc = "details"
  /\ \E outcome \in Outcomes, d \in Latencies, idea \in pool :
       LET c == AhaRequest(clk, d)
       IN /\ lastCall' = [svc |-> "aha", gap |-> clk.ga]
          /\ IF outcome = "error"
               THEN FailRecord("RequestException", c, hist)
               ELSE /\ detailed_idea' = idea
                    /\ clk' = rate_limit_aha(c)
                    /\ pc' = "comments"
                    /\ UNCHANGED <<i, results, comments, priority, issue_data, hist>>
  /\ UNCHANGED <<callVars, mainVars, resolverVars, jiraVars, resolves, config, pool, source, page, all_ideas, ideas_list, requests>>

\* map_assignee (line 376) and what follows it up to the next request.
AssigneeThenPayload(prio, c) ==
  LET a == map_assignee(IdeaOf(detailed_idea), config)
  IN IF a.lookup
       THEN /\ clk' = rate_limit_jira(c)
            /\ priority' = prio
            /\ issue_data' = EmptyMap
            /\ pc' = "user_search"
       ELSE /\ clk' = c
            /\ priority' = prio
            /\ issue_data' = IssueFields(IdeaOf(detailed_idea), config, prio, a.val)
            /\ pc' = "create"

\* fetch_idea_comments from the answer of its request on (lines 106-112):
\* a RequestException is logged and answered with [].
fetch_idea_comments_Raises(outcome, cl) ==
  IF outcome = "error" THEN Raise("RequestException") ELSE Ret(cl)

fetch_idea_comments(outcome, cl) ==
  IF outcome = "error" THEN Ret(<<>>) ELSE Ret(cl)

\* Lines 106-112, then create_jira_issue up to its first request
\* (lines 346-378 and, without a directory lookup, up to 415).
FetchComments ==
  /\ pc = "comments"
  /\ \E outcome \in Outcomes, d \in Latencies, cl \in CommentLists :
       LET answered == AhaRequest(clk, d)
           c == rate_limit_jira(answered)
           fetched == fetch_idea_comments(outcome, cl)
           h1 == IF outcome = "error" THEN Note(hist, "comments_failed", i) ELSE hist
           h == IF fetched.val = <<>> THEN Note(h1, "no_comments", i) ELSE h1
           p == map_priority(IdeaOf(detailed_idea), config)
       IN /\ lastCall' = [svc |-> "aha", gap |-> clk.ga]
          /\ IF fetched.raised
               THEN FailRecord(fetched.exc, answered, h1)
             ELSE IF "map_priority" \notin resolves
               THEN FailRecord("AttributeError", c, h)
             ELSE IF p.raised
               THEN FailRecord(p.exc, c, h)
             ELSE /\ comments' = fetched.val
                  /\ AssigneeThenPayload(p.val, c)
                  /\ hist' = h
                  /\ UNCHANGED <<i, results, detailed_idea>>
  /\ UNCHANGED <<callVars, mainVars, resolverVars, jiraVars, resolves, config, pool, source, page, all_ideas, ideas_list, requests>>

\* find_jira_user_by_email from its request on (lines 245-258), then the
\* rest of the payload (lines 377-412).
UserSearch ==
  /\ pc = "user_search"
  /\ \E outcome \in Outcomes, d \in Latencies, users \in UserLists :
       LET c == JiraRequest(clk, d)
           assignee == IF outcome = "ok" /\ users # <<>>
                         THEN users[1].v[T("accountId")] ELSE Null
       IN /\ lastCall' = [svc |-> "jira", gap |-> clk.gj]
          /\ clk' = c
          /\ issue_data' = IssueFields(IdeaOf(detailed_idea), config, priority, assignee)
          /\ hist' = LET h == [hist EXCEPT !.lookups = Append(@, i)]
                     IN IF IsNull(assignee) THEN Note(h, "lookup_none", i) ELSE h
          /\ pc' = "create"
  /\ UNCHANGED <<callVars, mainVars, resolverVars, jiraVars, resolves, config, pool, source, page, all_ideas, ideas_list, i, results,
                 detailed_idea, comments, priority, requests>>

\* Lines 485-493 once create_jira_issue has answered an issue key.
AfterCreate_AlwaysPosts(c, h) ==
  /\ clk' = rate_limit_jira(c)
  /\ hist' = h
  /\ pc' = "comment"
  /\ UNCHANGED <<i, results, detailed_idea, comments, priority, issue_data>>

AfterCreate(c, h) ==
  IF comments # <<>>
    THEN LET formatted_comments == format_comments_for_jira(comments)
         IN IF formatted_comments.raised
              THEN FailRecord(formatted_comments.exc, c, Note(h, "secondary_fail", i))
            ELSE IF IsBlankText(formatted_comments.val)
              THEN Succeed(c, h)
            ELSE /\ clk' = rate_limit_jira(c)
                 /\ hist' = h
                 /\ pc' = "comment"
                 /\ UNCHANGED <<i, results, detailed_idea, comments, priority, issue_data>>
    ELSE Succeed(c, h)

\* Lines 414-435: the create request and what follows it in
\* create_jira_issue, up to the next request.
CreateIssue ==
  /\ pc = "create"
  /\ \E outcome \in Outcomes, d \in Latencies :
       LET c == JiraRequest(clk, d)
       IN /\ lastCall' = [svc |-> "jira", gap |-> clk.gj]
          /\ IF outcome = "error"
               THEN FailSilently(c, Note(hist, "write_fail", i))
             ELSE IF Truthy(Get(IdeaOf(detailed_idea), T("url"), Null))
               THEN /\ clk' = rate_limit_jira(c)
                    /\ hist' = Note(hist, "write_ok", i)
                    /\ pc' = "web_link"
                    /\ UNCHANGED <<i, results, detailed_idea, comments, priority, issue_data>>
             ELSE AfterCreate(c, Note(hist, "write_ok", i))
  /\ UNCHANGED <<callVars, mainVars, resolverVars, jiraVars, resolves, config, pool, source, page, all_ideas, ideas_list, requests>>

\* add_web_link_to_jira_issue from its request on (lines 319-328).
WebLink ==
  /\ pc = "web_link"
  /\ \E outcome \in Outcomes, d \in Latencies :
       LET c == JiraRequest(clk, d)
       IN /\ lastCall' = [svc |-> "jira", gap |-> clk.gj]
          /\ AfterCreate(c, IF outcome = "error" THEN Note(hist, "secondary_fail", i) ELSE hist)
  /\ UNCHANGED <<callVars, mainVars, resolverVars, jiraVars, resolves, config, pool, source, page, all_ideas, ideas_list, requests>>

\* add_comment_to_jira_issue from its request on (lines 294-303), line 491.
PostComment ==
  /\ pc = "comment"
  /\ \E outcome \in Outcomes, d \in Latencies :
       LET c == JiraRequest(clk, d)
           h == Note(hist, "comment_posts", i)
       IN /\ lastCall' = [svc |-> "jira", gap |-> clk.gj]
          /\ Succeed(c, IF outcome = "error" THEN Note(h, "secondary_fail", i) ELSE h)
  /\ UNCHANGED <<callVars, mainVars, resolverVars, jiraVars, resolves, config, pool, source, page, all_ideas, ideas_list, requests>>

AhaStep ==
  \/ SyncStart
  \/ FetchPage
  \/ NextIdea
  \/ FetchDetails
  \/ FetchComments
  \/ UserSearch
  \/ CreateIssue
  \/ WebLink
  \/ PostComment

(* ======================= src/Jira2AhaSync.py ========================== *)
\* Most issues the search answers, most attachments an idea has.
MaxIssues == 2
MaxAttachments == 2


\* An issue of the search result: with or without 'key' and 'fields', its
\* Aha! reference field filled or empty.
Issues ==
  {[has_key |-> hk, has_fields |-> hf, ref |-> r] :
     hk \in BOOLEAN, hf \in BOOLEAN, r \in {"", "IDEA-1"}}

IssueLists == UNION {[1..n -> Issues] : n \in 0..MaxIssues}

\* What GET /ideas/<id> answers in 'idea'.
JIdeas ==
  {Dict(EmptyMap),
   Dict(T("name") :> Str(T("Idea A"))),
   Dict(T("name") :> Str(T("Idea A")) @@ T("description") :> Str(T("<p>text</p>"))
        @@ T("status") :> Str(T("New")))}

Attachment(has_url) ==
  IF has_url THEN Dict(T("id") :> Num(1) @@ T("download_url") :> Str(T("https://aha/file"))
                       @@ T("filename") :> Str(T("a.png")))
  ELSE Dict(T("id") :> Num(2))

AttachmentLists == UNION {[1..n -> {Attachment(TRUE), Attachment(FALSE)}] : n \in 0..MaxAttachments}

JConfigs ==
  [dry_run : BOOLEAN, update_description : BOOLEAN, update_attachments : BOOLEAN,
   additional_field_mappings : {EmptyMap, T("status") :> T("customfield_10001")}]

\* The locals of run_sync before its first statement.
FreshJiraRun ==
  /\ jira_issues = <<>> /\ j_k = 0 /\ success_count = 0
  /\ update_fields = {} /\ success = TRUE /\ attachments = <<>>
  /\ j_log = [k \in 1..MaxIssues |-> <<>>]
  /\ j_outcome = [k \in 1..MaxIssues |-> "none"]

InitJiraRun == j_pc = "start" /\ FreshJiraRun

InitJira ==
  /\ j_config \in JConfigs
  /\ j_found \in IssueLists
  /\ InitJiraRun

\* JiraAhaSync not running.
IdleJira ==
  /\ j_config = [dry_run |-> FALSE, update_description |-> TRUE, update_attachments |-> TRUE,
                 additional_field_mappings |-> EmptyMap]
  /\ j_found = <<>>
  /\ InitJiraRun

\* No run of run_sync to come.
JiraOver ==
  /\ j_config = [dry_run |-> FALSE, update_description |-> TRUE, update_attachments |-> TRUE,
                 additional_field_mappings |-> EmptyMap]
  /\ j_found = <<>>
  /\ j_pc = "done" /\ FreshJiraRun

Sent(kind) == j_log' = [j_log EXCEPT ![j_k] = Append(@, kind)]

SentWith(kind, ok) ==
  j_log' = [j_log EXCEPT ![j_k] = IF ok THEN Append(@, kind) ELSE @ \o <<kind, "failed">>]

\* run_sync lines 241-256 with get_jira_issues (lines 68-94).
RunSyncStart ==
  /\ j_pc = "start"
  /\ \E outcome \in Outcomes :
       LET found == IF outcome = "error" THEN <<>> ELSE j_found
       IN /\ jira_issues' = found
          /\ IF found = <<>> THEN j_pc' = "done" /\ j_k' = j_k
                             ELSE j_pc' = "issue" /\ j_k' = 1
  /\ UNCHANGED <<callVars, mainVars, resolverVars, ahaVars, j_config, j_found, success_count, update_fields, success, attachments, j_log, j_outcome>>

\* sync_issue_with_aha answered ok (lines 262-263): on to the next issue.
IssueDone(ok) ==
  /\ success_count' = IF ok THEN success_count + 1 ELSE success_count
  /\ j_k' = j_k + 1
  /\ j_pc' = "issue"
  /\ update_fields' = {} /\ success' = TRUE /\ attachments' = <<>>
  /\ j_outcome' = [j_outcome EXCEPT ![j_k] = IF ok THEN "ok" ELSE "failed"]

\* Lines 260-267 and 176-187: the loop head and sync_issue_with_aha up to
\* its first request; the handler of line 265 reads issue['key'] itself.
NextIssue ==
  /\ j_pc = "issue"
  /\ IF j_k > Len(jira_issues)
       THEN /\ j_pc' = "done"
            /\ UNCHANGED <<j_outcome, j_k, success_count, update_fields, success, attachments>>
     ELSE IF ~jira_issues[j_k].has_key
       THEN /\ j_pc' = "raised"
            /\ UNCHANGED <<j_outcome, j_k, success_count, update_fields, success, attachments>>
     ELSE IF ~jira_issues[j_k].has_fields
       THEN IssueDone(FALSE)
     ELSE IF jira_issues[j_k].ref = ""
       THEN IssueDone(FALSE)
     ELSE /\ j_pc' = "get_idea"
          /\ UNCHANGED <<j_outcome, j_k, success_count, update_fields, success, attachments>>
  /\ UNCHANGED <<callVars, mainVars, resolverVars, ahaVars, j_config, j_found, jira_issues, j_log>>

\* Lines 227-239 from the test of update_attachments to the next request.
RECURSIVE SkipNoUrl(_)
SkipNoUrl(atts) ==
  IF atts = <<>> THEN <<>>
  ELSE IF Truthy(Get(Head(atts), T("download_url"), Null)) THEN atts
  ELSE SkipNoUrl(Tail(atts))

\* The for loop of lines 230-237 from its head to the next download.
AttachmentLoop(atts, ok) ==
  LET rest == SkipNoUrl(atts)
  IN IF rest = <<>>
       THEN IssueDone(ok)
       ELSE /\ attachments' = rest
            /\ j_pc' = "download"
            /\ success' = ok
            /\ UNCHANGED <<j_outcome, j_k, success_count, update_fields>>

AfterUpdate_IgnoresFailure(ok) ==
  IF j_config.update_attachments
    THEN /\ j_pc' = "get_attachments"
         /\ success' = ok
         /\ UNCHANGED <<j_outcome, j_k, success_count, update_fields, attachments>>
    ELSE IssueDone(ok)

AfterUpdate(ok) ==
  IF j_config.update_attachments /\ ok
    THEN /\ j_pc' = "get_attachments"
         /\ success' = ok
         /\ UNCHANGED <<j_outcome, j_k, success_count, update_fields, attachments>>
    ELSE IssueDone(ok)

\* The keys of update_fields (lines 194-220).
UpdateFieldsOf(aha_idea, cfg) ==
  (IF cfg.update_description /\ Truthy(Get(aha_idea, T("description"), Null))
     THEN {T("description")} ELSE {})
  \cup {cfg.additional_field_mappings[f] :
          f \in {g \in DOMAIN cfg.additional_field_mappings : HasKey(aha_idea, g)}}

\* update_jira_issue up to its request (lines 155-165).
DryRunSkipsUpdate_Never(cfg) == FALSE

DryRunSkipsUpdate(cfg) == cfg.dry_run

\* get_aha_idea (lines 96-110) and lines 190-225.
GetIdea ==
  /\ j_pc = "get_idea"
  /\ \E outcome \in Outcomes, aha_idea \in JIdeas :
       /\ SentWith("GET idea", outcome = "ok" /\ Truthy(aha_idea))
       /\ IF outcome = "error" \/ ~Truthy(aha_idea)
            THEN IssueDone(FALSE)
          ELSE LET uf == UpdateFieldsOf(aha_idea, j_config)
               IN IF uf = {} THEN AfterUpdate(TRUE)
                  ELSE IF DryRunSkipsUpdate(j_config) THEN AfterUpdate(TRUE)
                  ELSE /\ update_fields' = uf
                       /\ j_pc' = "put"
                       /\ UNCHANGED <<j_outcome, j_k, success_count, success, attachments>>
  /\ UNCHANGED <<callVars, mainVars, resolverVars, ahaVars, j_config, j_found, jira_issues>>

\* update_jira_issue from its request on (lines 167-174), line 225.
PutIssue ==
  /\ j_pc = "put"
  /\ \E outcome \in Outcomes :
       /\ SentWith("PUT issue", outcome = "ok")
       /\ AfterUpdate(outcome = "ok")
  /\ UNCHANGED <<callVars, mainVars, resolverVars, ahaVars, j_config, j_found, jira_issues>>

\* get_aha_attachments (lines 112-127), then the for loop.
GetAttachments ==
  /\ j_pc = "get_attachments"
  /\ \E outcome \in Outcomes, atts \in AttachmentLists :
       /\ SentWith("GET attachments", outcome = "ok")
       /\ AttachmentLoop(IF outcome = "error" THEN <<>> ELSE atts, success)
  /\ UNCHANGED <<callVars, mainVars, resolverVars, ahaVars, j_config, j_found, jira_issues>>

\* download_attachment (lines 129-137), line 236.
Download ==
  /\ j_pc = "download"
  /\ \E outcome \in {"ok", "empty", "error"} :
       /\ Sent("GET download")
       /\ IF outcome = "ok"
            THEN /\ j_pc' = "upload"
                 /\ UNCHANGED <<j_outcome, j_k, success_count, update_fields, success, attachments>>
            ELSE AttachmentLoop(Tail(attachments), success)
  /\ UNCHANGED <<callVars, mainVars, resolverVars, ahaVars, j_config, j_found, jira_issues>>

\* upload_attachment_to_jira (lines 139-153), whose answer line 237 drops.
Upload ==
  /\ j_pc = "upload"
  /\ \E outcome \in Outcomes :
       /\ Sent("POST attachment")
       /\ AttachmentLoop(Tail(attachments), success)
  /\ UNCHANGED <<callVars, mainVars, resolverVars, ahaVars, j_config, j_found, jira_issues>>

JiraStep ==
  \/ RunSyncStart
  \/ NextIssue
  \/ GetIdea
  \/ PutIssue
  \/ GetAttachments
  \/ Download
  \/ Upload

(* ================ get_nested_field_value called on its own ============ *)
\* Longest path, in characters.  Here every token is one character.
MaxPathLen == 5

A1 == <<"a">>
B1 == <<"b">>

RecordX ==
  Dict(A1 :> Dict(B1 :> Str(T("deep")) @@ <<"0">> :> Num(7) @@ A1 :> Null)
       @@ B1 :> List(<<Str(T("p")), Dict(A1 :> Num(1) @@ <<"1">> :> Num(2)),
                      List(<<Num(5), Dict(B1 :> Num(6))>>)>>)
       @@ <<"0">> :> List(<<Num(8)>>)
       @@ <<"a", ".", "b">> :> Str(T("dotted key")))

RecordY ==
  Dict(<<>> :> Dict(<<>> :> Str(T("empty keys")))
       @@ <<"a", "b">> :> Str(T("scalar"))
       @@ <<"1", "0">> :> Num(10)
       @@ A1 :> List(<<Num(0), Num(1), Num(2), Num(3), Num(4), Num(5), Num(6), Num(7),
                      Num(8), Num(9), Dict(<<"0">> :> Str(T("eleventh")))>>))

RecordZ == Dict(EmptyMap)

RecordOf(name) ==
  CASE name = "X" -> RecordX
    [] name = "Y" -> RecordY
    [] name = "Z" -> RecordZ

PathChars == {"a", "b", ".", "0", "1"}

Paths == UNION {[1..n -> PathChars] : n \in 0..MaxPathLen}

InitResolver ==
  /\ r_data \in {"X", "Y", "Z"}
  /\ r_path \in Paths
  /\ r_pc = "call"
  /\ r_result = Null

IdleResolver ==
  /\ r_data = "Z" /\ r_path = <<>> /\ r_pc = "idle" /\ r_result = Null

\* The call get_nested_field_value(data, field_path); data is only read.
Resolve ==
  /\ r_pc = "call"
  /\ r_result' = get_nested_field_value(RecordOf(r_data), r_path)
  /\ r_pc' = "returned"
  /\ UNCHANGED <<r_data, r_path, ahaVars, jiraVars, mainVars, callVars>>

(* ======================= the two main() functions ===================== *)
\* Jira2AhaSync.main: the settings that must not be empty.
required_fields ==
  {"jira_url", "jira_username", "jira_token", "jira_project_key", "aha_domain", "aha_api_key"}

\* The command line of Jira2AhaSync: --test-limit accepts 1..5 only.
JiraArgs ==
  [test : BOOLEAN, dry_run : BOOLEAN, list_issues : BOOLEAN, test_limit : {3, 9}]

\* The environment of Jira2AhaSync: the required settings that read as
\* empty, and the text of TEST_ISSUE_LIMIT.
JiraEnvs == [empty : SUBSET required_fields, TEST_ISSUE_LIMIT : {<<"3">>, <<"x">>}]

\* The command line of Ahaj.
AhajArgvs ==
  {<<>>, <<"--create-config">>, <<"--inspect-fields">>, <<"--inspect-fields", "P1">>,
   <<"P1">>, <<"">>}

\* config.json as Ahaj finds it: absent, not JSON, or a JSON object with or
\* without its aha and jira sections and with or without aha.product_id.
ConfigFiles == {"missing", "invalid_json", "no_sections", "no_product_id", "complete"}

InitMain ==
  /\ m_prog \in {"Jira2AhaSync", "Ahaj"}
  /\ \/ m_prog = "Jira2AhaSync" /\ m_argv \in JiraArgs /\ m_env \in JiraEnvs
     \/ m_prog = "Ahaj" /\ m_argv \in AhajArgvs /\ m_env \in ConfigFiles
  /\ m_run \in {"returns", "raises"}
  /\ m_pc = "main"
  /\ m_exit = 0

IdleMain ==
  /\ m_prog = "none" /\ m_argv = <<>> /\ m_env = "missing" /\ m_run = "returns"
  /\ m_pc = "idle" /\ m_exit = 0

\* The process ends with the given status.
Exit(status) ==
  /\ m_pc' = "exited"
  /\ m_exit' = status
  /\ UNCHANGED <<m_prog, m_argv, m_env, m_run, ahaVars, jiraVars, resolverVars, callVars>>

Goto(label) ==
  /\ m_pc' = label
  /\ UNCHANGED <<m_prog, m_argv, m_env, m_run, m_exit, ahaVars, jiraVars, resolverVars, callVars>>

\* parser.parse_args(): an option value outside choices ends the process
\* with status 2.
ParseArgs ==
  /\ m_prog = "Jira2AhaSync" /\ m_pc = "main"
  /\ IF m_argv.test_limit \in 1..5 THEN Goto("load_config_from_env") ELSE Exit(2)

\* load_config_from_env(): int() of TEST_ISSUE_LIMIT raises ValueError on
\* a text that is no integer; nothing catches it.
load_config_from_env ==
  /\ m_prog = "Jira2AhaSync" /\ m_pc = "load_config_from_env"
  /\ IF IsDigit(m_env.TEST_ISSUE_LIMIT) THEN Goto("validate") ELSE Exit(1)

\* The check of the required settings: main returns when one is empty.
ValidateRequired ==
  /\ m_prog = "Jira2AhaSync" /\ m_pc = "validate"
  /\ LET missing_fields == {f \in required_fields : f \in m_env.empty}
     IN IF missing_fields # {} THEN Exit(0) ELSE Goto("sync")

\* --list-issues or run_sync(); main returns after either, and an
\* exception out of either ends the process with a traceback.
ListOrSync ==
  /\ m_prog = "Jira2AhaSync" /\ m_pc = "sync"
  /\ IF m_run = "raises" THEN Exit(1) ELSE Exit(0)

\* Ahaj.main: the two commands that are handled before the try block.
Dispatch ==
  /\ m_prog = "Ahaj" /\ m_pc = "main"
  /\ IF Len(m_argv) > 0 /\ m_argv[1] = "--create-config" THEN Exit(0)
     ELSE IF Len(m_argv) > 0 /\ m_argv[1] = "--inspect-fields" THEN Goto("inspect_idea_fields")
     ELSE Goto("load_config")

\* inspect_idea_fields(): every exception, that of load_config included,
\* is logged inside the function; main returns after it.
inspect_idea_fields ==
  /\ m_prog = "Ahaj" /\ m_pc = "inspect_idea_fields"
  /\ Exit(0)

\* load_config() inside the try block of main: FileNotFoundError and
\* JSONDecodeError are raised again and reach sys.exit(1).
load_config ==
  /\ m_prog = "Ahaj" /\ m_pc = "load_config"
  /\ IF m_env \in {"missing", "invalid_json"} THEN Exit(1) ELSE Goto("product_id")

\* The product id: sys.argv[1] if there is one, else aha.product_id.
product_id_of(argv, file) ==
  IF Len(argv) > 0 THEN argv[1]
  ELSE IF file = "complete" THEN "P1" ELSE ""

ProductId ==
  /\ m_prog = "Ahaj" /\ m_pc = "product_id"
  /\ IF product_id_of(m_argv, m_env) = "" THEN Exit(0) ELSE Goto("sync")

\* AhaJiraSync(config) raises KeyError without the aha and jira sections;
\* sync_ideas returns its results and the summary is printed.
SyncAndSummary ==
  /\ m_prog = "Ahaj" /\ m_pc = "sync"
  /\ IF m_env = "no_sections" THEN Exit(1) ELSE Exit(0)

MainStep ==
  \/ ParseArgs
  \/ load_config_from_env
  \/ ValidateRequired
  \/ ListOrSync
  \/ Dispatch
  \/ inspect_idea_fields
  \/ load_config
  \/ ProductId
  \/ SyncAndSummary

(* ============== methods of AhaJiraSync called on their own ============ *)
\* Longest sequence of comments.
MaxComments == 3

\* Ideas that differ in their score.
ScoreIdeas ==
  {Dict(EmptyMap), Dict(T("score") :> Null), Dict(T("score") :> Str(T("85")))}
    \cup {Dict(T("score") :> Num(n)) : n \in {0, 39, 40, 49, 50, 69, 70, 79, 80, 89, 90, 100}}

\* priority_mappings: left out of the file, complete, or partial.
PriorityTables ==
  {Null,
   Dict(T("high") :> Str(T("Critical")) @@ T("medium") :> Str(T("Major")) @@ T("low") :> Str(T("Minor"))),
   Dict(T("high") :> Str(T("P1")))}

\* The bands a configuration file asks for under field_mappings; no line
\* of the source reads them (lines 339 and 341 compare with 80 and 50).
PriorityBands == {[high |-> 80, medium |-> 50], [high |-> 70, medium |-> 40], [high |-> 90, medium |-> 50]}

PriorityConfigs ==
  {[SampleConfig EXCEPT !.field_mappings =
      [priority_thresholds |-> b] @@ [SampleFieldMappings EXCEPT !.priority_mappings = pm]] :
     pm \in PriorityTables, b \in PriorityBands}

\* Ideas that differ in their workflow_status.
StatusIdeas ==
  {Dict(EmptyMap), Dict(T("workflow_status") :> Null), Dict(T("workflow_status") :> Dict(EmptyMap)),
   Dict(T("workflow_status") :> Dict(T("name") :> Null))}
    \cup {Dict(T("workflow_status") :> Dict(T("name") :> Str(T(n)))) :
            n \in {"New", "Under review", "Shipped", "Parked"}}

StatusTables ==
  {Null, Dict(EmptyMap), SampleFieldMappings.status_mappings,
   Dict(T("Under review") :> Str(T("In Progress")))}

StatusConfigs ==
  {[SampleConfig EXCEPT !.default_status = T(d),
                        !.field_mappings = [SampleFieldMappings EXCEPT !.status_mappings = st]] :
     d \in {"To Do", "Backlog"}, st \in StatusTables}

\* Comments: without created_by, and with an author who has no email.
CommentBare == Dict(T("body") :> Str(T("Hm")))

CommentNoEmail ==
  Dict(T("created_by") :> Dict(T("name") :> Str(T("Bob"))) @@ T("created_at") :> Str(T("2024-01-04"))
       @@ T("body") :> Str(T("Fine")))

Comments == {CommentOk, CommentNoAuthor, CommentBare, CommentNoEmail}

CommentSeqs == UNION {[1..n -> Comments] : n \in 0..MaxComments}

InitCalls ==
  /\ h_fn \in {"map_priority", "map_status", "format_comments_for_jira"}
  /\ \/ /\ h_fn = "map_priority"
        /\ resolves \in Bindings
        /\ h_idea \in ScoreIdeas /\ h_config \in PriorityConfigs /\ h_comments = <<>>
     \/ /\ h_fn = "map_status"
        /\ resolves = {}
        /\ h_idea \in StatusIdeas /\ h_config \in StatusConfigs /\ h_comments = <<>>
     \/ /\ h_fn = "format_comments_for_jira"
        /\ resolves = {}
        /\ h_idea = Null /\ h_config = SampleConfig /\ h_comments \in CommentSeqs
  /\ h_pc = "call"
  /\ h_result = Null
  /\ config = SampleConfig /\ pool = {} /\ source = <<>>
  /\ InitRun

IdleCalls ==
  /\ h_fn = "none" /\ h_idea = Null /\ h_config = SampleConfig /\ h_comments = <<>>
  /\ h_pc = "idle" /\ h_result = Null

Returns(x) ==
  /\ h_result' = x
  /\ h_pc' = "returned"
  /\ UNCHANGED <<h_fn, h_idea, h_config, h_comments, ahaVars, jiraVars, resolverVars, mainVars>>

\* self.map_priority(idea), as line 371 calls it: an AttributeError on the
\* class as written, the body of lines 329-344 where it is bound.
Call_map_priority ==
  /\ h_pc = "call" /\ h_fn = "map_priority"
  /\ IF "map_priority" \in resolves
       THEN Returns(map_priority(h_idea, h_config))
       ELSE Returns(Raise("AttributeError"))

\* self.map_status(idea)
Call_map_status ==
  /\ h_pc = "call" /\ h_fn = "map_status"
  /\ Returns(map_status(h_idea, h_config))

\* self.format_comments_for_jira(comments)
Call_format_comments_for_jira ==
  /\ h_pc = "call" /\ h_fn = "format_comments_for_jira"
  /\ Returns(format_comments_for_jira(h_comments))

CallStep ==
  \/ Call_map_priority
  \/ Call_map_status
  \/ Call_format_comments_for_jira

(* ----------------------------- specifications ------------------------- *)
Init == InitAha /\ IdleJira /\ IdleResolver /\ IdleMain /\ IdleCalls

Next == AhaStep

\* A run of AhaJiraSync.sync_ideas.
Spec == Init /\ [][Next]_vars

\* A run of sync_ideas over one idea, under every mapping configuration.
InitM == InitMap /\ IdleJira /\ IdleResolver /\ IdleMain /\ IdleCalls

SpecMap == InitM /\ [][Next]_vars

InitJ == IdleAha /\ InitJira /\ IdleResolver /\ IdleMain /\ IdleCalls

NextJ == JiraStep

\* A run of JiraAhaSync.run_sync.
SpecJira == InitJ /\ [][NextJ]_vars

InitR == IdleAha /\ IdleJira /\ InitResolver /\ IdleMain /\ IdleCalls

NextR == Resolve

\* One call of get_nested_field_value, for every record and path.
SpecResolver == InitR /\ [][NextR]_vars

InitP == IdleAha /\ IdleJira /\ IdleResolver /\ InitMain /\ IdleCalls

NextP == MainStep

\* One run of either script from the command line.
SpecMain == InitP /\ [][NextP]_vars

InitC == InitCalls /\ IdleJira /\ IdleResolver /\ IdleMain

NextC == CallStep

\* One call of map_priority, map_status or format_comments_for_jira.
SpecCalls == InitC /\ [][NextC]_vars

InitS ==
  /\ \/ InitAha /\ JiraOver
     \/ AhaOver /\ InitJira
  /\ IdleResolver /\ IdleMain /\ IdleCalls

NextS == AhaStep \/ JiraStep

\* A run of either synchronizer.
SpecSync == InitS /\ [][NextS]_vars

\* fetch_ideas_list as sync_ideas calls it (line 468), over sources of
\* several pages. Every request is answered, by a page or by an error, so
\* each turn of the loop is taken once it is reached.
InitList ==
  /\ resolves \in Bindings
  /\ config = SampleConfig
  /\ pool = {"A", "B", "C"}
  /\ source \in ListedSources
  /\ InitRun

InitL == InitList /\ IdleJira /\ IdleResolver /\ IdleMain /\ IdleCalls

NextL == SyncStart \/ FetchPage

SpecList == InitL /\ [][NextL]_vars /\ WF_vars(SyncStart) /\ WF_vars(FetchPage)

(* ====================== properties of sync_ideas ====================== *)
Returned == pc = "done"

FatalLogged ==
  \E n \in 1..Len(results.errors) : results.errors[n].label = "Fatal error"

Listed == 1..Len(ideas_list)

\* C1: when sync_ideas returns, total_ideas is the number of listed records,
\* failed_syncs the number of records whose create_jira_issue write failed and
\* successful_syncs the number of records whose write succeeded.
C1_CountersCountWrites ==
  Returned =>
    /\ results.total_ideas = Len(ideas_list)
    /\ results.failed_syncs = Cardinality(hist.write_fail)
    /\ results.successful_syncs = Cardinality(hist.write_ok)

\* C2: no error of one record leaves the per-record boundary: when
\* sync_ideas returns, every listed record has been taken up by the loop.
C2_EveryListedRecordTakenUp ==
  Returned => hist.entered = Listed

\* C3: when sync_ideas returns without a fatal error, every record counted in
\* failed_syncs has an entry of results['errors'] that names it, and there
\* are as many entries as failed records.
C3_EveryFailureLabeled ==
  (Returned /\ ~FatalLogged) =>
    /\ Len(results.errors) = results.failed_syncs
    /\ \A k \in hist.fail :
         \E n \in 1..Len(results.errors) :
            /\ results.errors[n].label = "Idea"
            /\ results.errors[n].id = ideas_list[k].v[T("id")].v

\* C4: every request sent to a service comes at least that service's
\* interval after the previous request sent to it (1.0 s for Aha!, 0.5 s
\* for Jira).
C4_RequestsSpacedByInterval ==
  /\ lastCall.svc = "aha" => lastCall.gap >= aha_rate_limit
  /\ lastCall.svc = "jira" => lastCall.gap >= jira_rate_limit

(* ======================= properties of run_sync ======================= *)
WritesSent(k) == {n \in 1..Len(j_log[k]) : j_log[k][n] \in {"PUT issue", "POST attachment"}}

\* C5: with dry_run set, a run sends neither an issue update (PUT) nor an
\* attachment upload (POST).
C5_DryRunSendsNoWrite ==
  j_config.dry_run => \A k \in 1..MaxIssues : WritesSent(k) = {}

(* ================= properties of the create_jira_issue payload ======== *)
\* The configured pairs, the idea and the fields as they stand before the
\* custom field loop, when the create request is about to be sent.
WriteAttempted == pc = "create"

Pairs == CustomFieldPairs(config)

Resolved(n) == get_nested_field_value(IdeaOf(detailed_idea), Pairs[n][1])

\* The assignee that went into the payload, and the fields as they stood
\* before the custom field loop.
AssigneeSent ==
  IF T("assignee") \in DOMAIN issue_data
    THEN issue_data[T("assignee")].v[T("accountId")] ELSE Null

BeforeCustomFields ==
  LET idea == IdeaOf(detailed_idea)
  IN WithXrefs(Put(WithAssignee(BaseFields(idea, config, priority), AssigneeSent),
                   T("labels"), List(Labels(idea))), idea, config)

Targets == {Pairs[n][2] : n \in 1..Len(Pairs)}

\* The pairs naming target field f whose path resolves to a value.
Resolving(f) == {n \in 1..Len(Pairs) : Pairs[n][2] = f /\ ~IsNull(Resolved(n))}

Last(S) == CHOOSE n \in S : \A m \in S : m <= n

LeftAsBefore(f) ==
  /\ f \in DOMAIN issue_data <=> f \in DOMAIN BeforeCustomFields
  /\ f \in DOMAIN issue_data => issue_data[f] = BeforeCustomFields[f]

\* C6: whenever the create request is about to be sent, the payload holds
\* project = the configured project key, summary = the record's title and
\* issuetype = the configured issue type.
C6_RequiredFieldsInPayload ==
  WriteAttempted =>
    /\ {T("project"), T("summary"), T("issuetype")} \subseteq DOMAIN issue_data
    /\ issue_data[T("project")] = Dict(T("key") :> Str(config.project_key))
    /\ issue_data[T("summary")] = Get(IdeaOf(detailed_idea), T("name"), Str(T("Untitled Idea")))
    /\ issue_data[T("issuetype")] = Dict(T("name") :> Str(config.issue_type))

C8_WrittenRecordNeverFailed ==
  hist.write_ok \cap hist.fail = {}

(* ================ properties of get_nested_field_value ================ *)
\* The segments of a dotted path, read off the places of its dots.
DotsOf(path) == {n \in 1..Len(path) : path[n] = "."}

SegmentsOf(path) ==
  LET cuts == {0} \cup DotsOf(path) \cup {Len(path) + 1}
      nth(k) == CHOOSE c \in cuts : Cardinality({x \in cuts : x < c}) = k
  IN [k \in 1..(Cardinality(cuts) - 1) |-> SubSeq(path, nth(k - 1) + 1, nth(k) - 1)]

\* The decimal numeral of a natural number, and a numeral without its
\* leading zeros.
DigitOf(n) ==
  CASE n = 0 -> "0" [] n = 1 -> "1" [] n = 2 -> "2" [] n = 3 -> "3" [] n = 4 -> "4"
    [] n = 5 -> "5" [] n = 6 -> "6" [] n = 7 -> "7" [] n = 8 -> "8" [] n = 9 -> "9"

RECURSIVE Numeral(_)
Numeral(n) == IF n < 10 THEN <<DigitOf(n)>> ELSE Append(Numeral(n \div 10), DigitOf(n % 10))

RECURSIVE NoLeadingZeros(_)
NoLeadingZeros(s) == IF Len(s) > 1 /\ Head(s) = "0" THEN NoLeadingZeros(Tail(s)) ELSE s

Absent == [found |-> FALSE]
Found(x) == [found |-> TRUE, val |-> x]

\* One segment applied to a value: a key present in a mapping, or an index
\* within the bounds of a sequence; anything else is absent.
Child(x, seg) ==
  IF x.t = "dict" /\ seg \in DOMAIN x.v THEN Found(x.v[seg])
  ELSE IF x.t = "list" /\ \E k \in 0..(Len(x.v) - 1) : NoLeadingZeros(seg) = Numeral(k)
    THEN Found(x.v[(CHOOSE k \in 0..(Len(x.v) - 1) : NoLeadingZeros(seg) = Numeral(k)) + 1])
  ELSE Absent

RECURSIVE Lookup(_, _)
Lookup(x, segs) ==
  IF segs = <<>> THEN Found(x)
  ELSE LET before == Lookup(x, SubSeq(segs, 1, Len(segs) - 1))
       IN IF before.found THEN Child(before.val, segs[Len(segs)]) ELSE Absent

Expected == Lookup(RecordOf(r_data), SegmentsOf(r_path))

\* C9: get_nested_field_value returns exactly the nested value when every
\* segment of the path is a key present in the current mapping or an index
\* within the current sequence, and None in every other case.
C9_ResolvesExactlyThePresentPaths ==
  r_pc = "returned" =>
    IF Expected.found THEN r_result = Expected.val ELSE r_result = Null

\* A path of three segments through a mapping, a sequence index and a
\* mapping again was resolved to its value.
C9_NestedValueFound ==
  /\ r_pc = "returned"
  /\ r_data = "X"
  /\ r_path = <<"b", ".", "1", ".", "a">>
  /\ r_result = Num(1)

(* ========================= properties of main() ======================= *)
\* Required configuration is missing: an empty required setting of
\* Jira2AhaSync; for a synchronisation or inspection by Ahaj, a config file
\* that cannot be loaded; for a synchronisation by Ahaj, no product id.
AhajCommand ==
  IF Len(m_argv) > 0 /\ m_argv[1] \in {"--create-config", "--inspect-fields"}
    THEN m_argv[1] ELSE "sync"

ConfigMissing ==
  \/ m_prog = "Jira2AhaSync" /\ m_env.empty # {}
  \/ m_prog = "Ahaj" /\ AhajCommand # "--create-config" /\ m_env \in {"missing", "invalid_json"}
  \/ m_prog = "Ahaj" /\ AhajCommand = "sync" /\ product_id_of(m_argv, m_env) = ""

\* Startup fails: a rejected command line, an unreadable setting, or a
\* configuration without the sections the constructor reads.
StartupFails ==
  \/ m_prog = "Jira2AhaSync" /\ (m_argv.test_limit \notin 1..5 \/ ~IsDigit(m_env.TEST_ISSUE_LIMIT))
  \/ m_prog = "Ahaj" /\ AhajCommand # "--create-config" /\ m_env = "no_sections"

\* C7: the process ends with a non-zero status whenever required
\* configuration is missing or startup fails, and with status zero when
\* neither is the case and the run itself ends normally.
C7_ExitStatusTellsStartupFailure ==
  m_pc = "exited" =>
    /\ (ConfigMissing \/ StartupFails) => m_exit # 0
    /\ (~ConfigMissing /\ ~StartupFails /\ m_run = "returns") => m_exit = 0

(* ================= properties of the methods on their own ============= *)
Called(fn) == h_pc = "returned" /\ h_fn = fn

\* The label a table holds for a band, or the band's usual name.
LabelOf(table, band, usual) ==
  IF IsNull(table) THEN Str(T(usual)) ELSE Get(table, T(band), Str(T(usual)))

\* The label of a score under given thresholds.
BandLabel(score, bands, table) ==
  IF score >= bands.high THEN LabelOf(table, "high", "High")
  ELSE IF score >= bands.medium THEN LabelOf(table, "medium", "Medium")
  ELSE LabelOf(table, "low", "Low")

\* C11: the payload about to be posted carries the status that the status
\* table gives for the record's workflow status, under some field, and under
\* priority the label derived from the record's score.
C11_PayloadCarriesStatusAndPriority ==
  WriteAttempted =>
    LET idea == IdeaOf(detailed_idea)
        status == map_status(idea, config).val
        score == Get(idea, T("score"), Num(0)).v
    IN /\ \E f \in DOMAIN issue_data : issue_data[f] \in {status, Dict(T("name") :> status)}
       /\ T("priority") \in DOMAIN issue_data
       /\ issue_data[T("priority")] =
            Dict(T("name") :> BandLabel(score, [high |-> HighScore, medium |-> MediumScore],
                                        FieldMappings(config).priority_mappings))

\* C12: where map_priority is bound, a numeric score at or above the
\* configured high threshold yields the high label, one at or above the
\* configured medium threshold the medium label, any other the low label.
C12_PriorityFollowsConfiguredBands ==
  (Called("map_priority") /\ "map_priority" \in resolves
     /\ Get(h_idea, T("score"), Num(0)).t = "num") =>
    /\ ~h_result.raised
    /\ h_result.val = BandLabel(Get(h_idea, T("score"), Num(0)).v,
                                FieldMappings(h_config).priority_thresholds,
                                FieldMappings(h_config).priority_mappings)

\* The name of the record's workflow status, if it has one.
StatusName(idea) ==
  LET ws == Get(idea, T("workflow_status"), Null)
  IN IF IsDict(ws) THEN Get(ws, T("name"), Null) ELSE Null

\* C13: for a record whose workflow_status is an object or is left out,
\* map_status returns the table's value when the record's workflow status
\* name is a key of the status table and the configured default in every
\* other case, a record without workflow status included.
C13_StatusFromTableElseDefault ==
  (Called("map_status") /\ IsDict(Get(h_idea, T("workflow_status"), Dict(EmptyMap)))) =>
    LET name == StatusName(h_idea)
        table == FieldMappings(h_config).status_mappings
    IN /\ ~h_result.raised
       /\ h_result.val = IF name.t = "str" /\ ~IsNull(table) /\ HasKey(table, name.v)
                           THEN table.v[name.v] ELSE Str(h_config.default_status)

\* The places of the delimiter lines in the returned lines.
Rules(lines) == {n \in 1..Len(lines) : lines[n].kind = "rule"}

\* C15: format_comments_for_jira returns the empty text for no comments; for
\* N comments it returns N blocks in input order, each a delimiter, a header
\* (author, email only when there is one, timestamp) and the body.
C15_OneBlockPerComment ==
  Called("format_comments_for_jira") =>
    /\ ~h_result.raised
    /\ h_comments = <<>> => h_result.val = <<>>
    /\ Cardinality(Rules(h_result.val)) = Len(h_comments)
    /\ \A n \in 1..Len(h_comments) :
         LET at == 4 * n - 1
             author == Get(h_comments[n], T("created_by"), Dict(EmptyMap))
         IN /\ at + 2 <= Len(h_result.val)
            /\ h_result.val[at].kind = "rule"
            /\ h_result.val[at + 1].kind = "header"
            /\ h_result.val[at + 1].name = Get(author, T("name"), Str(T("Unknown User")))
            /\ h_result.val[at + 1].at = Get(h_comments[n], T("created_at"), Str(T("Unknown Date")))
            /\ h_result.val[at + 2] =
                 [kind |-> "body", text |-> Get(h_comments[n], T("body"), Str(T("No content")))]

(* ============ properties of the steps around the primary write ======== *)
\* The records the loop has left behind.
Finished == 1..(i - 1)

\* The email of the record's assignee, if it has one.
AssigneeEmail(idea) ==
  LET a == Get(idea, T("assigned_to"), Null)
  IN IF IsDict(a) THEN Get(a, T("email"), Null) ELSE Null

\* How often the user directory was asked for record k.
Lookups(k) == Cardinality({n \in 1..Len(hist.lookups) : hist.lookups[n] = k})

WriteTried(k) == k \in hist.write_ok \cup hist.write_fail

C18_CountersPartitionTheRecords ==
  /\ results.successful_syncs = Cardinality(hist.succ)
  /\ results.failed_syncs = Cardinality(hist.fail)
  /\ hist.succ \cap hist.fail = {}
  /\ hist.succ \cup hist.fail \subseteq 1..results.total_ideas
  /\ results.successful_syncs + results.failed_syncs <= results.total_ideas
  /\ (Returned /\ ~FatalLogged) =>
       results.successful_syncs + results.failed_syncs = results.total_ideas

\* sync_ideas returned without a fatal error after a listing of several
\* records.
C18_RunOverSeveralRecords ==
  /\ Returned /\ ~FatalLogged
  /\ results.total_ideas >= 2
  /\ results.successful_syncs + results.failed_syncs = results.total_ideas

\* C19: once a page request of the listing has failed, sync_ideas has
\* returned with all three counters 0 and one message, labeled 'Fatal
\* error'; no record was taken up and no request went to Jira.
C19_ListingFailureIsFatal ==
  hist.listing_failed # {} =>
    /\ Returned
    /\ results.total_ideas = 0 /\ results.successful_syncs = 0 /\ results.failed_syncs = 0
    /\ Len(results.errors) = 1 /\ results.errors[1].label = "Fatal error"
    /\ hist.entered = {}
    /\ hist.write_ok \cup hist.write_fail = {} /\ hist.lookups = <<>> /\ hist.comment_posts = {}
    /\ lastCall.svc = "aha"

\* The second page request failed after a full first page.
C19_SecondPageFailed ==
  hist.listing_failed = {2} /\ Len(all_ideas) = PerPage /\ Returned

(* ============== properties of the sub-resource fetches ================ *)
\* The issues run_sync has left behind.
JFinished == {k \in 1..Len(jira_issues) : j_outcome[k] # "none"}

\* The places in the log of issue k of the requests of a kind, and of those
\* of them that failed.
SentAt(k, kind) == {n \in 1..Len(j_log[k]) : j_log[k][n] = kind}

FailedAt(k, kind) == {n \in SentAt(k, kind) : n < Len(j_log[k]) /\ j_log[k][n + 1] = "failed"}

TransferAt(k) ==
  SentAt(k, "GET attachments") \cup SentAt(k, "GET download") \cup SentAt(k, "POST attachment")

\* The Ahaj half of C17: a record whose comment request failed has its create
\* request sent, and counts as synced exactly when that request succeeded.
CommentFailureNotFatal ==
  \A k \in hist.comments_failed \cap Finished :
     /\ WriteTried(k)
     /\ k \in hist.succ <=> k \in hist.write_ok
     /\ k \in hist.fail <=> k \in hist.write_fail

C20_TransferOnlyAfterUpdate ==
  \A k \in 1..Len(jira_issues) :
     /\ FailedAt(k, "PUT issue") # {} =>
          /\ TransferAt(k) = {}
          /\ j_outcome[k] # "ok"
          /\ k < j_k => j_outcome[k] = "failed"
     /\ \A n \in TransferAt(k) : \A m \in SentAt(k, "PUT issue") : m < n
     /\ (jira_issues[k].ref = "" \/ FailedAt(k, "GET idea") # {}) =>
          /\ WritesSent(k) = {}
          /\ k < j_k => j_outcome[k] = "failed"

\* The update of an issue failed under a configuration that transfers
\* attachments, and the issue was answered as not successful.
C20_UpdateFailed ==
  /\ j_config.update_attachments
  /\ \E k \in 1..Len(jira_issues) : FailedAt(k, "PUT issue") # {} /\ j_outcome[k] = "failed"

(* ===================== properties of the listing ====================== *)
\* fetch_ideas_list has returned its list to sync_ideas (line 468).
ListReturned == pc = "next_idea"

\* floor(N/P) + 1 for the source at hand.
PagesNeeded == (Len(source) \div PerPage) + 1

\* C21: over a source of N ideas served in pages of P, the k-th request of
\* fetch_ideas_list asks for page k; the loop never sends more than
\* floor(N/P) + 1 requests and, when no request fails, ends; it then has
\* sent exactly floor(N/P) + 1 requests, the last one answered by the first
\* page that is empty or short, and returns the N ideas, each once, in the
\* source's order.
C21_PaginationCompleteAndTerminates ==
  /\ [][requests' = requests + 1 => page = requests + 1]_vars
  /\ [](requests <= PagesNeeded)
  /\ [](pc = "list_page" => /\ page = requests + 1
                            /\ all_ideas = SubSeq(source, 1, requests * PerPage))
  /\ [](ListReturned => /\ requests = PagesNeeded
                  /\ ~MorePages(PageOf(source, requests))
                  /\ \A p \in 1..(requests - 1) : MorePages(PageOf(source, p))
                  /\ ideas_list = source
                  /\ results.total_ideas = Len(source))
  /\ (pc = "list_page" ~> (ListReturned \/ hist.listing_failed # {}))

\* A listing of more than two pages ended on a short page that holds ideas.
C21_ThreePagesListed ==
  /\ ListReturned /\ requests = 3 /\ hist.listing_failed = {}
  /\ PageOf(source, 3) # <<>>
  /\ ideas_list = source

====
